---- MODULE Spec2Model ----
(***************************************************************************)
(* TaskSync remote session bridge.                                         *)
(*                                                                         *)
(* RemoteUiServer (src/tasksync-chat/src/server/remoteUiServer.ts) as it   *)
(* is constructed and wired by activate() (src/unnamed/part_000): one      *)
(* bridge instance, its socket.io connections, the set of authenticated    *)
(* socket ids, the events emitted to each socket, the invocations of the   *)
(* state-owner callback and the session registry kept in globalState.      *)
(***************************************************************************)
EXTENDS Integers, Sequences, FiniteSets, TLC

\* ---------------------------------------------------------------- bounds
\* number of socket ids socket.io hands out in one behaviour
MaxSockets == 2
\* number of recorded events in one state: events emitted to the open
\* sockets plus invocations of the inbound callback
MaxEvents == 5
\* number of start() calls in one behaviour
MaxStarts == 2
\* Math.random() is drawn from { k / RandomScale : k \in 0..RandomScale-1 }
RandomScale == 2

\* ------------------------------------------------------ program constants
\* `private _server: http.Server | null = null`, `_io ... = null`
Null == 0
\* `private _port: number = 0`
NoPort == 0
\* `config.get<number>('remotePort', 3000)` and `preferredPort || 3000`
DefaultPort == 3000
\* `const maxAttempts = 100`
maxAttempts == 100
\* result of _findAvailablePort when it throws instead of returning
NoPortAvailable == -1

\* application payloads: inbound messages, broadcasts and snapshots are
\* opaque to the bridge
Messages == {"m1", "m2"}
Snapshots == {"s1", "s2"}

VARIABLES
    pin,                  \* this._pin
    sessionId,            \* this._sessionId
    port,                 \* this._port
    server,               \* this._server: id of an http server, or Null
    io,                   \* this._io: id of a socket.io server, or Null
    authenticatedSockets, \* this._authenticatedSockets
    servers,              \* http servers of this process that listen: id -> port
    sockets,              \* open sockets: socket.id -> id of the socket.io server they belong to
    received,             \* per open socket, the events emitted to it, in order
    inbound,              \* invocations of the onMessage callback: <<socket.id, message>>
    appState,             \* what provider.getStateForRemote() returns now
    registry,             \* globalState 'tasksync.remoteSessions'
    nextSocket,           \* next unused socket.id
    nextServer,           \* next unused server id (also the number of starts so far + 1)
    presented,            \* open sockets that have sent an `authenticate` carrying the bridge's PIN
    occupied,             \* ports bound by other processes of the machine
    result,               \* what the last start() call, HTTP request or host command gave its caller
    pending,              \* registry writers between their globalState.get and update: id -> operation
    getStateCalls,        \* number of invocations of this._getStateCallback so far
    other,                \* the fields of the RemoteUiServer instance of another window
    client                \* the browser client of the application page: its shim's variables

vars == <<pin, sessionId, port, server, io, authenticatedSockets, servers, sockets,
          received, inbound, appState, registry, nextSocket, nextServer, presented,
          occupied, result, pending, getStateCalls, other, client>>

\* ------------------------------------------------------------- helpers
Digit(d) ==
    CASE d = 0 -> "0" [] d = 1 -> "1" [] d = 2 -> "2" [] d = 3 -> "3" [] d = 4 -> "4"
      [] d = 5 -> "5" [] d = 6 -> "6" [] d = 7 -> "7" [] d = 8 -> "8" [] d = 9 -> "9"

RECURSIVE NumberToString(_)
\* Number.prototype.toString() of a non-negative integer: no padding
NumberToString(n) ==
    IF n < 10 THEN Digit(n) ELSE NumberToString(n \div 10) \o Digit(n % 10)

\* a generator that rounds instead of taking the floor
RandomPin_rounded(k, scale) ==
    NumberToString(1000 + ((2 * k * 9000 + scale) \div (2 * scale)))

\* Math.floor(1000 + Math.random() * 9000).toString() for Math.random() = k / scale
RandomPin(k, scale) == NumberToString(1000 + ((k * 9000) \div scale))

\* _generatePin() with Math.random() = k / RandomScale
_generatePin(k) == RandomPin(k, RandomScale)

\* values a client may put in the `pin` field of `authenticate`
CandidatePins == { _generatePin(k) : k \in 0..(RandomScale - 1) } \cup {"0000", ""}

Restrict(f, S) == [x \in S |-> f[x]]

\* events the server emits to a socket
AuthOk == [type |-> "authenticated", data |-> "success"]
AuthFail == [type |-> "authenticated", data |-> "Invalid PIN"]
InitialState(s) == [type |-> "initialState", data |-> s]
MessageEvent(m) == [type |-> "message", data |-> m]
ErrorEvent == [type |-> "error", data |-> "Not authenticated"]

RECURSIVE SumLen(_, _)
SumLen(f, S) ==
    IF S = {} THEN 0
    ELSE LET x == CHOOSE y \in S : TRUE IN Len(f[x]) + SumLen(f, S \ {x})

\* number of events recorded in this state
EventCount == SumLen(received, DOMAIN received) + Len(inbound)

\* socket.emit(event): one more event for this socket only
Emit(rcv, c, events) == [rcv EXCEPT ![c] = @ \o events]

\* outcomes handed to a caller: the value start() resolves with or the error
\* it rejects with, and the response of an HTTP route
NoResult == [kind |-> "none", body |-> << >>]
Started(p) == [kind |-> "started", body |-> p]
StartFailed == [kind |-> "startFailed", body |-> "Could not find available port"]

\* the fields of a second RemoteUiServer, in another window, after its
\* constructor ran with Math.random() = k / RandomScale; `owned` are the ids
\* of the http servers it has created
OtherInstance(k) ==
    [pin |-> _generatePin(k), sessionId |-> "other_1", port |-> NoPort, server |-> Null,
     io |-> Null, authenticatedSockets |-> {}, owned |-> {}]

\* the variables of the client shim when the application page has loaded:
\* isConnected and messageQueue are the shim's; `open` and `connection` tell
\* whether and for which time the socket is connected, `emitted` lists the
\* `message` events emitted as <<connection, message>>, `authenticatedOn` the
\* connections on which `authenticated` success arrived, `posted` the
\* messages the UI has posted
InitialClient ==
    [socket |-> FALSE, isConnected |-> FALSE, messageQueue |-> << >>, open |-> FALSE,
     connection |-> 0, awaiting |-> FALSE, emitted |-> << >>, authenticatedOn |-> {},
     posted |-> << >>, page |-> "app"]

\* ------------------------------------------------------------ Init
\* the state after `new RemoteUiServer(...)`, onGetState(...) and onMessage(...)
Init ==
    /\ pin \in { _generatePin(k) : k \in 0..(RandomScale - 1) }
    /\ sessionId = "session_1"
    /\ port = NoPort
    /\ server = Null
    /\ io = Null
    /\ authenticatedSockets = {}
    /\ servers = << >>
    /\ sockets = << >>
    /\ received = << >>
    /\ inbound = << >>
    /\ appState \in Snapshots
    /\ registry = << >>
    /\ nextSocket = 1
    /\ nextServer = 1
    /\ presented = {}
    /\ occupied = {}
    /\ result = NoResult
    /\ pending = << >>
    /\ getStateCalls = 0
    /\ other = OtherInstance(0)
    /\ client = InitialClient

\* --------------------------------------------------------- port allocator
RECURSIVE Probe_oneMore(_, _, _)
\* a loop that probes once more than maxAttempts times
Probe_oneMore(p, i, used) ==
    IF i > maxAttempts THEN NoPortAvailable
    ELSE IF p \notin used THEN p
    ELSE Probe_oneMore(p + 1, i + 1, used)

RECURSIVE Probe(_, _, _)
\* the loop of _findAvailablePort: _checkPort(port) rejects when the port is in use
Probe(p, i, used) ==
    IF i >= maxAttempts THEN NoPortAvailable
    ELSE IF p \notin used THEN p
    ELSE Probe(p + 1, i + 1, used)

\* ports on which _checkPort cannot listen: those of the servers of this
\* process and those bound by other processes
PortsInUse == { servers[s] : s \in DOMAIN servers } \cup occupied

\* an allocator that returns the port it was asked for without probing
_findAvailablePort_noProbe(startPort) == startPort

\* _findAvailablePort(startPort) in the current state of the machine's ports
_findAvailablePort(startPort) == Probe(startPort, 0, PortsInUse)

\* ------------------------------------------------------------- registry
\* a record that leaves the PIN out
SessionInfo_noPin(p) ==
    [id |-> sessionId, workspaceName |-> "Untitled Workspace", port |-> p,
     startTime |-> nextServer, pin |-> ""]

SessionInfo(p) ==
    [id |-> sessionId, workspaceName |-> "Untitled Workspace", port |-> p,
     startTime |-> nextServer, pin |-> pin]

\* a registration that replaces by session id
RegisterIn_byId(sessions, session) ==
    Append(SelectSeq(sessions, LAMBDA s : s.id # session.id), session)

\* the list _registerSession stores: the sessions of other ports, then the
\* new session
RegisterIn(sessions, session) ==
    Append(SelectSeq(sessions, LAMBDA s : s.port # session.port), session)

\* an unregistration that empties the list
UnregisterIn_all(sessions, id) == << >>

\* the list _unregisterSession stores: the sessions of other ids
UnregisterIn(sessions, id) ==
    SelectSeq(sessions, LAMBDA s : s.id # id)

_registerSession(p) == RegisterIn(registry, SessionInfo(p))

\* an unregistration that filters by port, as the registration does
_unregisterSession_byPort == SelectSeq(registry, LAMBDA s : s.port # port)

_unregisterSession == UnregisterIn(registry, sessionId)

\* ---------------------------------------------------------- start / stop
\* start(preferredPort): probe for a port, listen, then in the listening
\* callback create the socket.io server and register the session.  Nothing
\* in start() looks at this._server or this._io: a start on a running bridge
\* opens one more server and overwrites both fields.
start(preferredPort) ==
    /\ nextServer <= MaxStarts
    /\ LET startPort == IF preferredPort = 0 THEN DefaultPort ELSE preferredPort
           p == _findAvailablePort(startPort)
       IN IF p = NoPortAvailable
          THEN /\ result' = StartFailed
               /\ UNCHANGED <<getStateCalls, other, client, pending, occupied, pin, sessionId, port, server, io,
                              authenticatedSockets, servers, sockets, received, inbound,
                              appState, registry, nextSocket, nextServer, presented>>
          ELSE /\ port' = p
               /\ result' = Started(p)
               /\ server' = nextServer
               /\ io' = nextServer
               /\ servers' = [s \in DOMAIN servers \cup {nextServer} |->
                                 IF s = nextServer THEN p ELSE servers[s]]
               /\ registry' = _registerSession(p)
               /\ nextServer' = nextServer + 1
               /\ UNCHANGED <<getStateCalls, other, client, pending, occupied, pin, sessionId, authenticatedSockets, sockets,
                              received, inbound, appState, nextSocket, presented>>

\* sockets that this._io.close() disconnects
SocketsOfIo == IF io = Null THEN {} ELSE { c \in DOMAIN sockets : sockets[c] = io }

\* a stop that forgets to clear the set
ClearedAuthenticated_kept == authenticatedSockets

\* `this._authenticatedSockets.clear()`
ClearedAuthenticated == {}

\* stop(): unregister, close this._io (which disconnects its sockets and
\* closes the http server it is attached to) and this._server, clear the
\* authenticated set
stop ==
    /\ registry' = _unregisterSession
    /\ sockets' = Restrict(sockets, DOMAIN sockets \ SocketsOfIo)
    /\ received' = Restrict(received, DOMAIN sockets \ SocketsOfIo)
    /\ presented' = presented \ SocketsOfIo
    /\ io' = Null
    /\ servers' = Restrict(servers, DOMAIN servers \ {server, io})
    /\ server' = Null
    /\ authenticatedSockets' = ClearedAuthenticated
    /\ UNCHANGED <<getStateCalls, other, client, pending, occupied, result, pin, sessionId, port, inbound, appState, nextSocket, nextServer>>

\* ------------------------------------------------------ connection events
\* io.on('connection'): a client connects to a listening server of this bridge
onConnection(s) ==
    /\ nextSocket <= MaxSockets
    /\ s \in DOMAIN servers
    /\ sockets' = [c \in DOMAIN sockets \cup {nextSocket} |->
                      IF c = nextSocket THEN s ELSE sockets[c]]
    /\ received' = [c \in DOMAIN sockets \cup {nextSocket} |->
                      IF c = nextSocket THEN << >> ELSE received[c]]
    /\ nextSocket' = nextSocket + 1
    /\ UNCHANGED <<getStateCalls, other, client, pending, occupied, result, pin, sessionId, port, server, io, authenticatedSockets, servers,
                   inbound, appState, registry, nextServer, presented>>

\* a comparison that lets an absent PIN through
PinMatches_orEmpty(candidate) == candidate = pin \/ candidate = ""

\* `data.pin === this._pin`
PinMatches(candidate) == candidate = pin

\* a handler that sends the state without asking the callback
AfterGetState_uncalled(n) == n

\* `const state = this._getStateCallback()`: one more invocation
AfterGetState(n) == n + 1

\* snapshots already delivered to an open socket
DeliveredSnapshots ==
    { e.data : e \in { ev \in UNION { { received[c][i] : i \in 1..Len(received[c]) } :
                                         c \in DOMAIN received } : ev.type = "initialState" } }

\* a callback that keeps the snapshot of an earlier authentication
_getStateCallback_cached ==
    IF DeliveredSnapshots = {} THEN appState ELSE CHOOSE s \in DeliveredSnapshots : TRUE

\* provider.getStateForRemote(), the callback given to onGetState
_getStateCallback == appState

\* a success branch that does not push the state
AuthSuccessEvents_noState == <<AuthOk>>

\* the events of the success branch: `authenticated`, then `initialState`
\* with the state pulled from the callback
AuthSuccessEvents == <<AuthOk, InitialState(_getStateCallback)>>

\* a handler that locks a socket out after a failed attempt
onAuthenticate_lockout(c, candidate) ==
    /\ c \in DOMAIN sockets
    /\ EventCount + 2 <= MaxEvents
    /\ IF PinMatches(candidate) /\ \A i \in 1..Len(received[c]) : received[c][i] # AuthFail
       THEN /\ authenticatedSockets' = authenticatedSockets \cup {c}
            /\ received' = Emit(received, c, AuthSuccessEvents)
            /\ getStateCalls' = AfterGetState(getStateCalls)
       ELSE /\ authenticatedSockets' = authenticatedSockets
            /\ received' = Emit(received, c, <<AuthFail>>)
            /\ getStateCalls' = getStateCalls
    /\ presented' = IF candidate = pin THEN presented \cup {c} ELSE presented
    /\ UNCHANGED <<other, client, pending, occupied, result, pin, sessionId, port, server, io, servers, sockets, inbound,
                   appState, registry, nextSocket, nextServer>>

\* socket.on('authenticate')
onAuthenticate(c, candidate) ==
    /\ c \in DOMAIN sockets
    /\ EventCount + 2 <= MaxEvents
    /\ IF PinMatches(candidate)
       THEN /\ authenticatedSockets' = authenticatedSockets \cup {c}
            /\ received' = Emit(received, c, AuthSuccessEvents)
            /\ getStateCalls' = AfterGetState(getStateCalls)
       ELSE /\ authenticatedSockets' = authenticatedSockets
            /\ received' = Emit(received, c, <<AuthFail>>)
            /\ getStateCalls' = getStateCalls
    /\ presented' = IF candidate = pin THEN presented \cup {c} ELSE presented
    /\ UNCHANGED <<other, client, pending, occupied, result, pin, sessionId, port, server, io, servers, sockets, inbound,
                   appState, registry, nextSocket, nextServer>>

\* a check that asks whether anybody is authenticated
IsAuthenticated_anySocket(c) == authenticatedSockets # {}

\* `this._authenticatedSockets.has(socket.id)`
IsAuthenticated(c) == c \in authenticatedSockets

\* a callback that puts the newest message first
_onMessageCallback_newestFirst(c, m) == <<<<c, m>>>> \o inbound

\* the callback given to onMessage: provider.handleRemoteMessage(message);
\* the respond function is not used by it
_onMessageCallback(c, m) == Append(inbound, <<c, m>>)

\* socket.on('message')
onMessage(c, m) ==
    /\ c \in DOMAIN sockets
    /\ EventCount < MaxEvents
    /\ IF ~IsAuthenticated(c)
       THEN /\ received' = Emit(received, c, <<ErrorEvent>>)
            /\ inbound' = inbound
       ELSE /\ inbound' = _onMessageCallback(c, m)
            /\ received' = received
    /\ UNCHANGED <<getStateCalls, other, client, pending, occupied, result, pin, sessionId, port, server, io, authenticatedSockets, servers,
                   sockets, appState, registry, nextSocket, nextServer, presented>>

\* a disconnect handler that keeps the id
DeleteAuthenticated_kept(c) == authenticatedSockets

\* `this._authenticatedSockets.delete(socket.id)`
DeleteAuthenticated(c) == authenticatedSockets \ {c}

\* socket.on('disconnect'): the transport of socket c closed
onDisconnect(c) ==
    /\ c \in DOMAIN sockets
    /\ authenticatedSockets' = DeleteAuthenticated(c)
    /\ sockets' = Restrict(sockets, DOMAIN sockets \ {c})
    /\ received' = Restrict(received, DOMAIN sockets \ {c})
    /\ presented' = presented \ {c}
    /\ UNCHANGED <<getStateCalls, other, client, pending, occupied, result, pin, sessionId, port, server, io, servers, inbound, appState,
                   registry, nextSocket, nextServer>>

\* `this._io.emit(...)`: every socket of this._io
BroadcastTargets_allSockets ==
    { c \in DOMAIN sockets : sockets[c] = io }

\* the sockets reached by `this._io.to(socketId).emit(...)` over the ids of
\* the authenticated set: a room of this._io holds the socket of that id
\* only when the socket belongs to this._io
BroadcastTargets ==
    { c \in authenticatedSockets : c \in DOMAIN sockets /\ sockets[c] = io }

\* broadcast(message)
broadcast(m) ==
    /\ EventCount + Cardinality(BroadcastTargets) <= MaxEvents
    /\ IF io = Null
       THEN received' = received
       ELSE received' = [c \in DOMAIN sockets |->
                            IF c \in BroadcastTargets
                            THEN received[c] \o <<MessageEvent(m)>>
                            ELSE received[c]]
    /\ UNCHANGED <<getStateCalls, other, client, pending, occupied, result, pin, sessionId, port, server, io, authenticatedSockets, servers,
                   sockets, inbound, appState, registry, nextSocket, nextServer, presented>>

\* the state owner changes its state (queue, history, pending request, settings)
StateOwnerUpdate(s) ==
    /\ s # appState
    /\ appState' = s
    /\ UNCHANGED <<getStateCalls, other, client, pending, occupied, result, pin, sessionId, port, server, io, authenticatedSockets, servers,
                   sockets, received, inbound, registry, nextSocket, nextServer, presented>>

Next ==
    \/ \E p \in {0, DefaultPort} : start(p)
    \/ stop
    \/ \E s \in 1..MaxStarts : onConnection(s)
    \/ \E c \in 1..MaxSockets, candidate \in CandidatePins : onAuthenticate(c, candidate)
    \/ \E c \in 1..MaxSockets, m \in Messages : onMessage(c, m)
    \/ \E c \in 1..MaxSockets : onDisconnect(c)
    \/ \E m \in Messages : broadcast(m)
    \/ \E s \in Snapshots : StateOwnerUpdate(s)

Spec == Init /\ [][Next]_vars

\* ------------------------------------------------------------ properties
Open == DOMAIN sockets

\* the events of one socket, as a set
EventsOf(c) == { received[c][i] : i \in 1..Len(received[c]) }

\* positions of the events of one type in the log of socket c
PositionsOf(c, type) == { i \in 1..Len(received[c]) : received[c][i].type = type }

\* C1: every step broadcast(m) on a running bridge appends the `message`
\* event m to the log of every open socket that is in the authenticated set,
\* and leaves the log of every other socket as it was.
C1_BroadcastReachesEveryAuthenticated ==
    [][\A m \in Messages :
          (broadcast(m) /\ io # Null) =>
              \A c \in Open :
                  received'[c] = IF c \in authenticatedSockets
                                 THEN Append(received[c], MessageEvent(m))
                                 ELSE received[c]]_vars

\* C2: an open socket that has never presented the bridge's PIN is not in
\* the authenticated set and has been sent nothing but failed
\* `authenticated` results and not-authenticated `error` notices.
C2_UnauthenticatedReceivesNothing ==
    \A c \in Open :
        c \notin presented =>
            /\ c \notin authenticatedSockets
            /\ EventsOf(c) \subseteq {AuthFail, ErrorEvent}

\* a socket that never presented the PIN and was refused, while a socket
\* that connected after it has received a broadcast
C2_Witness ==
    \E c \in Open, d \in Open :
        /\ c < d
        /\ c \notin presented
        /\ AuthFail \in EventsOf(c)
        /\ \E m \in Messages : MessageEvent(m) \in EventsOf(d)

\* C3: an `authenticate` carrying the bridge's PIN puts the socket in the
\* authenticated set and sends it `authenticated` success followed by
\* `initialState` with the state owner's state of that moment; no other
\* socket is sent anything.
C3_AuthenticateSendsFreshSnapshot ==
    [][\A c \in Open, candidate \in CandidatePins :
          (onAuthenticate(c, candidate) /\ candidate = pin) =>
              /\ c \in authenticatedSockets'
              /\ received'[c] = received[c] \o <<AuthOk, InitialState(appState)>>
              /\ \A d \in Open \ {c} : received'[d] = received[d]]_vars

\* two authentications have delivered two different snapshots
C3_Witness ==
    \E c \in Open, d \in Open :
        \E i \in PositionsOf(c, "initialState"), j \in PositionsOf(d, "initialState") :
            /\ received[c][i].data # received[d][j].data
            /\ i > 1
            /\ received[c][i - 1] = AuthOk
            /\ c \in authenticatedSockets

\* C4 as stated: a socket that has presented the PIN has exactly one
\* `initialState` in its log, and it precedes every `message`.
C4_ExactlyOneInitialState ==
    \A c \in Open :
        c \in presented =>
            /\ Cardinality(PositionsOf(c, "initialState")) = 1
            /\ \A j \in PositionsOf(c, "message") :
                  \E i \in PositionsOf(c, "initialState") : i < j

\* C4 amended: a socket is sent one `initialState` for each successful
\* `authenticate` (each directly after its `authenticated` success, and none
\* otherwise), a socket that has presented the PIN has at least one, and the
\* first one precedes every `message` the socket is sent.
C4_OneInitialStatePerAuthentication ==
    \A c \in Open :
        /\ \A i \in 1..Len(received[c]) :
              received[c][i] = AuthOk =>
                  i < Len(received[c]) /\ received[c][i + 1].type = "initialState"
        /\ \A i \in PositionsOf(c, "initialState") :
              i > 1 /\ received[c][i - 1] = AuthOk
        /\ c \in presented => PositionsOf(c, "initialState") # {}
        /\ \A j \in PositionsOf(c, "message") :
              \E i \in PositionsOf(c, "initialState") : i < j

\* a socket that authenticated twice and then received a broadcast
C4_Witness ==
    \E c \in Open :
        /\ Cardinality(PositionsOf(c, "initialState")) = 2
        /\ received[c][Len(received[c])].type = "message"

\* C5: an `authenticate` with another value than the bridge's PIN sends the
\* socket a failed `authenticated` result and nothing else, leaves the
\* socket open, the authenticated set and the other sockets untouched; a
\* `message` sent by the still unauthenticated socket right after it is
\* answered by `error` and not handed to the inbound callback.
C5_WrongPinRejected ==
    [][/\ \A c \in Open, candidate \in CandidatePins :
             (onAuthenticate(c, candidate) /\ candidate # pin) =>
                 /\ received'[c] = Append(received[c], AuthFail)
                 /\ authenticatedSockets' = authenticatedSockets
                 /\ DOMAIN sockets' = DOMAIN sockets
                 /\ \A d \in Open \ {c} : received'[d] = received[d]
       /\ \A c \in Open, m \in Messages :
             (/\ onMessage(c, m)
              /\ c \notin authenticatedSockets
              /\ received[c] # << >>
              /\ received[c][Len(received[c])] = AuthFail) =>
                 /\ received'[c] = Append(received[c], ErrorEvent)
                 /\ inbound' = inbound]_vars

\* a socket whose wrong PIN was refused and whose next message was rejected
C5_Witness ==
    \E c \in Open :
        /\ c \notin authenticatedSockets
        /\ received[c] = <<AuthFail, ErrorEvent>>
        /\ inbound = << >>

\* C6: a failed attempt never closes the socket, and an `authenticate`
\* with the bridge's PIN on a socket that has failed before succeeds as on
\* a fresh socket.
C6_RetryAfterFailureSucceeds ==
    [][\A c \in Open, candidate \in CandidatePins :
          /\ (onAuthenticate(c, candidate) /\ candidate # pin) => c \in DOMAIN sockets'
          /\ (onAuthenticate(c, candidate) /\ candidate = pin /\ AuthFail \in EventsOf(c)) =>
                 /\ c \in authenticatedSockets'
                 /\ received'[c] = received[c] \o <<AuthOk, InitialState(appState)>>]_vars

\* a socket that authenticated after two failed attempts
C6_Witness ==
    \E c \in authenticatedSockets :
        /\ c \in Open
        /\ Len(received[c]) = 4
        /\ received[c][1] = AuthFail
        /\ received[c][2] = AuthFail
        /\ received[c][3] = AuthOk

\* C7: a `message` from a socket of the authenticated set appends exactly
\* that message, for that socket, at the end of the invocations of the
\* inbound callback, and nothing else ever changes the invocations.
C7_InboundRelayedOnceInOrder ==
    [][/\ \A c \in Open, m \in Messages :
             (onMessage(c, m) /\ c \in authenticatedSockets) =>
                 inbound' = Append(inbound, <<c, m>>)
       /\ inbound' # inbound =>
             \E c \in authenticatedSockets, m \in Messages :
                 onMessage(c, m) /\ inbound' = Append(inbound, <<c, m>>)]_vars

\* two different messages of one socket have been handed to the callback
C7_Witness ==
    /\ Len(inbound) = 2
    /\ inbound[1][1] = inbound[2][1]
    /\ inbound[1][2] # inbound[2][2]

\* C8: a `message` from a socket that is not in the authenticated set does
\* not reach the inbound callback, sends `error` to that socket and nothing
\* to any other, and changes neither the authenticated set nor the registry.
C8_UnauthenticatedMessageRejected ==
    [][\A c \in Open, m \in Messages :
          (onMessage(c, m) /\ c \notin authenticatedSockets) =>
              /\ inbound' = inbound
              /\ received' = [received EXCEPT ![c] = Append(@, ErrorEvent)]
              /\ authenticatedSockets' = authenticatedSockets
              /\ registry' = registry]_vars

\* a rejected socket next to an authenticated one, on a registered bridge
C8_Witness ==
    \E c \in Open, d \in Open :
        /\ c \notin authenticatedSockets
        /\ d \in authenticatedSockets
        /\ received[c] # << >>
        /\ received[c][Len(received[c])] = ErrorEvent
        /\ registry # << >>

\* C9: a socket of the authenticated set stays in it for as long as the
\* socket is open.
C9_AuthenticatedUntilClosed ==
    [][\A c \in Open :
          (c \in authenticatedSockets /\ c \in DOMAIN sockets') =>
              c \in authenticatedSockets']_vars

\* C10: a disconnect removes the socket and its id from the authenticated
\* set, a new socket starts outside the set with nothing sent to it, and
\* every id of the set belongs to an open socket that presented the PIN on
\* this very connection.
C10_DisconnectForgetsAuthentication ==
    /\ [][\A c \in 1..MaxSockets :
             /\ onDisconnect(c) =>
                   c \notin authenticatedSockets' /\ c \notin DOMAIN sockets'
             /\ (c \notin DOMAIN sockets /\ c \in DOMAIN sockets') =>
                   c \notin authenticatedSockets' /\ received'[c] = << >>]_vars
    /\ [](\A c \in authenticatedSockets : c \in Open /\ c \in presented)

\* socket 1 was authenticated (a message of it was relayed) and is gone; a
\* later socket is open, outside the set, and its message was rejected
C10_Witness ==
    /\ 1 \notin Open
    /\ \E i \in 1..Len(inbound) : inbound[i][1] = 1
    /\ \E c \in Open :
          /\ c \notin authenticatedSockets
          /\ ErrorEvent \in EventsOf(c)

\* positions of the records of this bridge instance in the registry
OwnRecords == { i \in 1..Len(registry) : registry[i].id = sessionId }

\* C11: a start() that follows an earlier start() of the same bridge
\* instance puts another PIN in effect than the one of the earlier start.
C11_PinRegeneratedOnStart ==
    [][\A p \in {0, DefaultPort} :
          (start(p) /\ nextServer > 1 /\ result' = Started(port')) => pin' # pin]_vars

\* C14 as stated: no record of the registry ever carries the bridge's PIN.
C14_PinNeverInRegistry ==
    \A i \in 1..Len(registry) : registry[i].pin # pin

\* C14 amended: the PIN is also written to the registry.  Every successful
\* start() stores, as last record, a session of this bridge that carries
\* the current PIN; every record of this bridge carries it; stop() removes
\* the records of this bridge; nothing but start() and stop() writes the
\* registry.
C14_PinStoredInOwnRecord ==
    /\ [](\A i \in OwnRecords : registry[i].pin = pin)
    /\ [][/\ \A p \in {0, DefaultPort} :
                (start(p) /\ result' = Started(port')) =>
                    /\ registry' # << >>
                    /\ registry'[Len(registry')].id = sessionId
                    /\ registry'[Len(registry')].pin = pin
                    /\ registry'[Len(registry')].port = port'
          /\ stop => \A i \in 1..Len(registry') : registry'[i].id # sessionId
          /\ registry' # registry => (stop \/ \E p \in {0, DefaultPort} : start(p))]_vars

\* a running bridge whose record in the registry holds its PIN
C14_Witness ==
    /\ io # Null
    /\ \E i \in OwnRecords : registry[i].pin = pin /\ registry[i].port = port

\* C17: while the bridge is running, the registry holds exactly one record
\* with the id of this bridge instance.
C17_OneRecordPerLiveBridge ==
    io # Null => Cardinality(OwnRecords) = 1

\* the state stop() leaves: no server, no socket.io server, nobody
\* authenticated, no record of this bridge
StoppedState ==
    /\ io = Null
    /\ server = Null
    /\ authenticatedSockets = {}
    /\ OwnRecords = {}

\* C18: every stop() ends in the stopped state, and a stop() in the stopped
\* state (a bridge never started, or a second stop in a row) changes nothing.
C18_StopIdempotent ==
    [][stop => (StoppedState' /\ (StoppedState => UNCHANGED vars))]_vars

\* a bridge that was started, had a client, and is stopped
C18_Witness ==
    /\ StoppedState
    /\ nextServer > 1
    /\ nextSocket > 1

\* ------------------------------------------------- port allocator alone
\* offsets from DefaultPort that may be free inside a run of bound ports
HoleOffsets == {1, 50, 99, 100}

\* ports bound by other processes: the first k ports from DefaultPort on,
\* except some holes
OccupancyPatterns ==
    { { DefaultPort + j : j \in (0..(k - 1)) \ H } :
          k \in 0..(maxAttempts + 2), H \in SUBSET HoleOffsets }

\* preferred ports handed to start(): none, the default, the next one
PreferredPorts == {0, DefaultPort, DefaultPort + 1}

InitPorts ==
    /\ pin \in { _generatePin(k) : k \in 0..(RandomScale - 1) }
    /\ sessionId = "session_1"
    /\ port = NoPort
    /\ server = Null
    /\ io = Null
    /\ authenticatedSockets = {}
    /\ servers = << >>
    /\ sockets = << >>
    /\ received = << >>
    /\ inbound = << >>
    /\ appState = "s1"
    /\ registry = << >>
    /\ nextSocket = 1
    /\ nextServer = 1
    /\ presented = {}
    /\ occupied \in OccupancyPatterns
    /\ result = NoResult
    /\ pending = << >>
    /\ getStateCalls = 0
    /\ other = OtherInstance(0)
    /\ client = InitialClient

NextPorts ==
    \/ \E p \in PreferredPorts : start(p)
    \/ stop

SpecPorts == InitPorts /\ [][NextPorts]_vars

\* the ports the loop of _findAvailablePort may probe from startPort on
ProbeWindow(startPort) == startPort..(startPort + maxAttempts - 1)

Min(S) == CHOOSE x \in S : \A y \in S : x <= y

\* C20: start(p) listens on the smallest port of the 100 ports from p on
\* (from 3000 on when no port is preferred) that is not in use and
\* resolves with it; when all 100 are in use it rejects, and the bridge
\* keeps its port, its servers and the registry as they were.
C20_SmallestFreePortOrFailure ==
    [][\A p \in PreferredPorts :
          start(p) =>
              LET first == IF p = 0 THEN DefaultPort ELSE p
                  free == { q \in ProbeWindow(first) : q \notin PortsInUse }
              IN IF free # {}
                 THEN /\ result' = Started(Min(free))
                      /\ port' = Min(free)
                      /\ servers'[server'] = Min(free)
                 ELSE /\ result' = StartFailed
                      /\ port' = port
                      /\ servers' = servers
                      /\ registry' = registry]_vars

\* a start has failed although the port right after the probed ones is free
C20_Witness ==
    /\ result = StartFailed
    /\ \A q \in ProbeWindow(DefaultPort) : q \in PortsInUse
    /\ DefaultPort + maxAttempts \notin PortsInUse

\* ------------------------------------------------ PIN generator and PIN gate
\* Math.random() of the PIN specification is drawn from
\* { k / PinResolution : k \in 0..PinResolution-1 }
PinResolution == 18000

\* every PIN the constructor can put in this._pin
GeneratablePins == { RandomPin(k, PinResolution) : k \in 0..(PinResolution - 1) }

\* JavaScript values a client can send as `pin`: a string, a number, or nothing
JsString(str) == [type |-> "string", value |-> str]
JsNumber(str) == [type |-> "number", value |-> str]
JsUndefined == [type |-> "undefined", value |-> ""]

\* ?pin=a&pin=b reaches the route as an array
JsArray(str) == [type |-> "array", value |-> str]

\* a === b on these values
StrictEquals(a, b) == a.type = b.type /\ a.value = b.value

\* ToBoolean on these values
Truthy(a) ==
    ~ \/ a.type = "undefined"
      \/ a.type = "string" /\ a.value = ""
      \/ a.type = "number" /\ a.value = "0"

\* a default that lets an absent PIN stand for the right one
OrEmptyString_pin(a) == IF Truthy(a) THEN a ELSE JsString(pin)

\* a || ''
OrEmptyString(a) == IF Truthy(a) THEN a ELSE JsString("")

\* the test of socket.on('authenticate'): `data.pin === this._pin`, with
\* this._pin a string
SocketAccepts(v) == v.type = "string" /\ PinMatches(v.value)

\* a landing route that passes every non-empty PIN on
LandingAccepts_anyPin(v) == Truthy(v)

\* the test of GET /: `pin && pin === this._pin`
LandingAccepts(v) == Truthy(v) /\ StrictEquals(v, JsString(pin))

\* a gate that lets a request without PIN through
AppAccepts_missingAllowed(v) == ~ (Truthy(v) /\ ~ StrictEquals(v, JsString(pin)))

\* the test of GET /app: not (`pin !== this._pin`) for pin = req.query.pin || ''
AppAccepts(v) == ~ ~ StrictEquals(OrEmptyString(v), JsString(pin))

\* HTTP responses
Redirect(location) == [kind |-> "redirect", body |-> location]
Page(name) == [kind |-> "page", body |-> name]

\* values of the `pin` query parameter: absent, or a string
QueryPins ==
    { JsUndefined, JsString(""), JsString("0000"), JsString(pin), JsString(pin \o "0"),
      JsArray(pin) }

\* values of `data.pin` of an `authenticate` event
JsCandidates == QueryPins \cup { JsNumber(pin), JsNumber("0") }

\* what GET / answers
LandingResponse(v) ==
    IF LandingAccepts(v)
    THEN Redirect("/app?pin=" \o v.value)
    ELSE Page("landing")

\* what GET /app answers
AppResponse(v) ==
    IF ~ AppAccepts(v)
    THEN Redirect("/?error=invalid_pin")
    ELSE Page("app")

\* GET / on a listening server of the bridge
getLanding(v) ==
    /\ DOMAIN servers # {}
    /\ result' = LandingResponse(v)
    /\ UNCHANGED <<getStateCalls, other, client, pending, occupied, pin, sessionId, port, server, io, authenticatedSockets,
                   servers, sockets, received, inbound, appState, registry, nextSocket,
                   nextServer, presented>>

\* GET /app on a listening server of the bridge
getApp(v) ==
    /\ DOMAIN servers # {}
    /\ result' = AppResponse(v)
    /\ UNCHANGED <<getStateCalls, other, client, pending, occupied, pin, sessionId, port, server, io, authenticatedSockets,
                   servers, sockets, received, inbound, appState, registry, nextSocket,
                   nextServer, presented>>

\* the state after `new RemoteUiServer(...)`, the PIN drawn finely
InitPin ==
    /\ pin \in GeneratablePins
    /\ sessionId = "session_1"
    /\ port = NoPort
    /\ server = Null
    /\ io = Null
    /\ authenticatedSockets = {}
    /\ servers = << >>
    /\ sockets = << >>
    /\ received = << >>
    /\ inbound = << >>
    /\ appState = "s1"
    /\ registry = << >>
    /\ nextSocket = 1
    /\ nextServer = 1
    /\ presented = {}
    /\ occupied = {}
    /\ result = NoResult
    /\ pending = << >>
    /\ getStateCalls = 0
    /\ other = OtherInstance(0)
    /\ client = InitialClient

NextPin ==
    \/ start(DefaultPort)
    \/ \E v \in QueryPins : getLanding(v)
    \/ \E v \in QueryPins : getApp(v)

SpecPin == InitPin /\ [][NextPin]_vars

\* C12: each of the three tests accepts a value exactly when it is the
\* string equal to the bridge's PIN, so the three agree on every value; the
\* landing route then redirects into the application and the application
\* route serves the page exactly for that value.
C12_ValidationAgrees ==
    /\ [](\A v \in JsCandidates :
             /\ SocketAccepts(v) <=> (v = JsString(pin))
             /\ LandingAccepts(v) <=> SocketAccepts(v)
             /\ AppAccepts(v) <=> SocketAccepts(v))
    /\ [][\A v \in QueryPins :
             /\ getLanding(v) => ((result'.kind = "redirect") <=> (v = JsString(pin)))
             /\ getApp(v) => ((result' = Page("app")) <=> (v = JsString(pin)))]_vars

\* the application page has been served
C12_Witness == result = Page("app")

\* the decimal rendering of v in exactly four digits
Pad4(v) ==
    Digit((v \div 1000) % 10) \o Digit((v \div 100) % 10) \o Digit((v \div 10) % 10)
        \o Digit(v % 10)

\* the four-digit renderings of 0..9999 and of 1000..9999
AllFourDigitPins == { Pad4(v) : v \in 0..9999 }
FourDigitPinsFrom1000 == { Pad4(v) : v \in 1000..9999 }

\* what the generator covers
GeneratorCoversAll == GeneratablePins = AllFourDigitPins
GeneratorCoversFrom1000 == GeneratablePins = FourDigitPinsFrom1000

\* C13 as stated: the PIN has four digits and every value from 0000 to 9999
\* can be generated.
C13_AllFourDigitValues ==
    /\ Len(pin) = 4
    /\ GeneratorCoversAll

\* C13 amended: the PIN has four digits, the first of them not 0, and the
\* values that can be generated are exactly 1000 to 9999.
C13_FourDigitsFrom1000 ==
    /\ Len(pin) = 4
    /\ pin \in FourDigitPinsFrom1000
    /\ GeneratorCoversFrom1000

\* the largest PIN is in effect on a running bridge
C13_Witness == pin = "9999" /\ io # Null

\* ------------------------------------------- registry shared between bridges
\* bridge instances of this window: the first, and one per reactivation
MaxInstances == 3

\* the bridge of another window that shares globalState
ForeignIds == {"other_1"}

\* this._sessionId of the i-th instance of this window
SessionIdOf(i) == "session_" \o NumberToString(i)

InstanceOf(id) == CHOOSE i \in 1..MaxInstances : id = SessionIdOf(i)

\* a reader that drops the records of ports nobody listens on
_getAllSessions_listeningOnly == SelectSeq(registry, LAMBDA s : s.port \in PortsInUse)

\* _getAllSessions(): the stored list as it is
_getAllSessions == registry

Sessions(list) == [kind |-> "sessions", body |-> list]

\* GET /api/sessions on a listening server of the bridge; the route checks no PIN
getSessions ==
    /\ DOMAIN servers # {}
    /\ result' = Sessions(_getAllSessions)
    /\ UNCHANGED <<getStateCalls, other, client, pending, occupied, pin, sessionId, port, server, io, authenticatedSockets,
                   servers, sockets, received, inbound, appState, registry, nextSocket,
                   nextServer, presented>>

\* the extension host dies without deactivate() and the window activates the
\* extension again: the process's servers and sockets are gone, globalState
\* is kept, and the constructor draws a new session id and a new PIN
crash ==
    /\ InstanceOf(sessionId) < MaxInstances
    /\ sessionId' = SessionIdOf(InstanceOf(sessionId) + 1)
    /\ pin' \in { _generatePin(k) : k \in 0..(RandomScale - 1) }
    /\ port' = NoPort
    /\ server' = Null
    /\ io' = Null
    /\ authenticatedSockets' = {}
    /\ servers' = << >>
    /\ sockets' = << >>
    /\ received' = << >>
    /\ presented' = {}
    /\ UNCHANGED <<getStateCalls, other, client, pending, occupied, result, inbound, appState, registry, nextSocket, nextServer>>

\* the ports on which the bridge f of another window listens
ForeignPorts(f) ==
    { registry[i].port : i \in { j \in 1..Len(registry) :
                                    registry[j].id = f /\ registry[j].port \in occupied } }

\* start() of a bridge of another window
foreignStart(f) ==
    /\ \A i \in 1..Len(registry) : registry[i].id # f
    /\ LET p == _findAvailablePort(DefaultPort)
       IN /\ p # NoPortAvailable
          /\ occupied' = occupied \cup {p}
          /\ \E k \in 0..(RandomScale - 1) :
                registry' = RegisterIn(registry,
                                [id |-> f, workspaceName |-> "Untitled Workspace",
                                 port |-> p, startTime |-> nextServer,
                                 pin |-> _generatePin(k)])
    /\ UNCHANGED <<getStateCalls, other, client, pending, result, pin, sessionId, port, server, io, authenticatedSockets,
                   servers, sockets, received, inbound, appState, nextSocket,
                   nextServer, presented>>

\* stop() of a running bridge of another window
foreignStop(f) ==
    /\ ForeignPorts(f) # {}
    /\ occupied' = occupied \ ForeignPorts(f)
    /\ registry' = UnregisterIn(registry, f)
    /\ UNCHANGED <<getStateCalls, other, client, pending, result, pin, sessionId, port, server, io, authenticatedSockets,
                   servers, sockets, received, inbound, appState, nextSocket,
                   nextServer, presented>>

\* a running bridge of another window dies without stop()
foreignCrash(f) ==
    /\ ForeignPorts(f) # {}
    /\ occupied' = occupied \ ForeignPorts(f)
    /\ UNCHANGED <<getStateCalls, other, client, pending, result, pin, sessionId, port, server, io, authenticatedSockets,
                   servers, sockets, received, inbound, appState, registry, nextSocket,
                   nextServer, presented>>

InitRegistry ==
    /\ pin \in { _generatePin(k) : k \in 0..(RandomScale - 1) }
    /\ sessionId = SessionIdOf(1)
    /\ port = NoPort
    /\ server = Null
    /\ io = Null
    /\ authenticatedSockets = {}
    /\ servers = << >>
    /\ sockets = << >>
    /\ received = << >>
    /\ inbound = << >>
    /\ appState = "s1"
    /\ registry = << >>
    /\ nextSocket = 1
    /\ nextServer = 1
    /\ presented = {}
    /\ occupied = {}
    /\ result = NoResult
    /\ pending = << >>
    /\ getStateCalls = 0
    /\ other = OtherInstance(0)
    /\ client = InitialClient

NextRegistry ==
    \/ start(DefaultPort)
    \/ stop
    \/ crash
    \/ getSessions
    \/ \E f \in ForeignIds : foreignStart(f)
    \/ \E f \in ForeignIds : foreignStop(f)
    \/ \E f \in ForeignIds : foreignCrash(f)

SpecRegistry == InitRegistry /\ [][NextRegistry]_vars

\* the PINs stored in the records of a list
PinsOf(list) == { list[i].pin : i \in 1..Len(list) }

\* C15: a client that presented no PIN learns no PIN: the session listing it
\* is sent carries neither the PIN of this bridge nor that of another
\* registered session.
C15_NoPinToUnauthenticated ==
    [][getSessions => PinsOf(result'.body) \cap ({pin} \cup PinsOf(registry)) = {}]_vars

\* the ports of the records of a list are pairwise distinct
DistinctPorts(list) ==
    \A i, j \in 1..Len(list) : list[i].port = list[j].port => i = j

\* C16: neither the stored list nor a list sent by GET /api/sessions ever
\* holds two records with the same port, whatever bridges register,
\* unregister or die without unregistering.
C16_PortsUnique ==
    /\ DistinctPorts(registry)
    /\ result.kind = "sessions" => DistinctPorts(result.body)

\* the record of a dead instance of this window
Stale(s) == s.id \in { SessionIdOf(i) : i \in 1..MaxInstances } \ {sessionId}

\* a dead instance left its record, and a later instance registered another
\* port next to it and listed both
C16_Witness ==
    /\ result.kind = "sessions"
    /\ Len(result.body) >= 2
    /\ \E i \in 1..Len(result.body) : Stale(result.body[i])
    /\ \E i \in 1..Len(result.body) : result.body[i].id = sessionId

\* the bridge that wrote the record still listens on the record's port
Live(s) ==
    \/ s.id = sessionId /\ s.port \in { servers[x] : x \in DOMAIN servers }
    \/ s.id \in ForeignIds /\ s.port \in occupied

C21_SecondBridgeTakesNextPort ==
    [][(/\ start(DefaultPort)
        /\ servers = << >>
        /\ occupied = {DefaultPort}
        /\ Len(registry) = 1
        /\ registry[1].id \in ForeignIds
        /\ registry[1].port = DefaultPort)
       => /\ result' = Started(DefaultPort + 1)
          /\ port' = DefaultPort + 1
          /\ Len(registry') = 2
          /\ registry'[1] = registry[1]
          /\ registry'[2].port = DefaultPort + 1
          /\ registry'[2].id = sessionId
          /\ registry'[2].id # registry'[1].id]_vars

\* both bridges listen and both records are stored
C21_Witness ==
    /\ occupied = {DefaultPort}
    /\ port = DefaultPort + 1
    /\ io # Null
    /\ Len(registry) = 2
    /\ registry[1].id \in ForeignIds /\ registry[1].port = DefaultPort
    /\ registry[2].id = sessionId /\ registry[2].port = DefaultPort + 1

\* ------------------------------------------------------------ host commands
\* the value of the setting tasksync.remotePort
remotePort == DefaultPort

\* the http server's 'error' event that start() rejects with
BindFailed == [kind |-> "startFailed", body |-> "EADDRINUSE"]

\* a failed listen that registers the session all the same
RegistryAfterFailedBind_registered(p) == _registerSession(p)

\* the listening callback never runs, so _registerSession is not called
RegistryAfterFailedBind(p) == registry

\* start(preferredPort) when another process binds the probed port between
\* _checkPort and app.listen: this._port and this._server are assigned, the
\* server emits 'error', and the promise rejects
startBindFails(preferredPort) ==
    /\ nextServer <= MaxStarts
    /\ LET startPort == IF preferredPort = 0 THEN DefaultPort ELSE preferredPort
           p == _findAvailablePort(startPort)
       IN /\ p # NoPortAvailable
          /\ occupied' = occupied \cup {p}
          /\ port' = p
          /\ server' = nextServer
          /\ nextServer' = nextServer + 1
          /\ registry' = RegistryAfterFailedBind(p)
          /\ result' = BindFailed
    /\ UNCHANGED <<getStateCalls, other, client, pending, pin, sessionId, io, authenticatedSockets, servers, sockets,
                   received, inbound, appState, nextSocket, presented>>

\* getConnectionInfo(): the urls are made of this._port
getConnectionInfo == [port |-> port, pin |-> pin]

\* what the host puts on the screen
ConnectionInfoShown(info) == [kind |-> "connectionInfo", body |-> info]
NotRunningWarning == [kind |-> "warning", body |-> "TaskSync Remote Server is not running"]
QuickPick(info) == [kind |-> "quickPick", body |-> info]

\* tasksync.showRemoteUrl
showRemoteUrl ==
    /\ result' = IF getConnectionInfo.port > 0
                 THEN ConnectionInfoShown(getConnectionInfo)
                 ELSE NotRunningWarning
    /\ UNCHANGED <<getStateCalls, other, client, pending, occupied, pin, sessionId, port, server, io,
                   authenticatedSockets, servers, sockets, received, inbound, appState,
                   registry, nextSocket, nextServer, presented>>

\* tasksync.toggleRemoteStart: startRemoteServer(remotePort)
toggleRemoteStart == start(remotePort)

\* tasksync.toggleRemoteStop up to its `await showQuickPick`: nothing happens
\* unless info.port > 0
toggleRemoteStop ==
    /\ result' = IF getConnectionInfo.port > 0 THEN QuickPick(getConnectionInfo) ELSE result
    /\ UNCHANGED <<getStateCalls, other, client, pending, occupied, pin, sessionId, port, server, io,
                   authenticatedSockets, servers, sockets, received, inbound, appState,
                   registry, nextSocket, nextServer, presented>>

\* the user picks 'Stop Server' in the quick pick
pickStop ==
    /\ result.kind = "quickPick"
    /\ stop

\* tasksync.toggleRemote
toggleRemote ==
    IF getConnectionInfo.port > 0 THEN toggleRemoteStop ELSE toggleRemoteStart

\* ports bound by other processes before the window opens: none, the
\* preferred port, or all of the ports the allocator probes
HostOccupancy ==
    { {}, {remotePort}, remotePort..(remotePort + maxAttempts - 1) }

InitHost ==
    /\ pin \in { _generatePin(k) : k \in 0..(RandomScale - 1) }
    /\ sessionId = SessionIdOf(1)
    /\ port = NoPort
    /\ server = Null
    /\ io = Null
    /\ authenticatedSockets = {}
    /\ servers = << >>
    /\ sockets = << >>
    /\ received = << >>
    /\ inbound = << >>
    /\ appState = "s1"
    /\ registry = << >>
    /\ nextSocket = 1
    /\ nextServer = 1
    /\ presented = {}
    /\ occupied \in HostOccupancy
    /\ result = NoResult
    /\ pending = << >>
    /\ getStateCalls = 0
    /\ other = OtherInstance(0)
    /\ client = InitialClient

NextHost ==
    \/ start(remotePort)
    \/ startBindFails(remotePort)
    \/ stop
    \/ showRemoteUrl
    \/ toggleRemoteStop
    \/ pickStop
    \/ toggleRemote

SpecHost == InitHost /\ [][NextHost]_vars

\* a server of this process listens
Listening == DOMAIN servers # {}

\* the records of this bridge that a step adds to the registry
NewOwnRecords ==
    { i \in 1..Len(registry') :
         /\ registry'[i].id = sessionId
         /\ \A j \in 1..Len(registry) : registry[j] # registry'[i] }

\* C22: a start() that fails, by port exhaustion or by a bind failure,
\* hands a failure to its caller and leaves the registry as it was, so a
\* bridge without a record still has none; and every record that a step adds
\* for this bridge carries the port on which this._server then listens.
C22_RecordOnlyAfterBind ==
    [][/\ ((start(remotePort) /\ result' = StartFailed) \/ startBindFails(remotePort))
           => /\ result'.kind = "startFailed"
              /\ registry' = registry
              /\ (OwnRecords = {} => (OwnRecords = {})')
       /\ \A i \in NewOwnRecords :
             /\ server' \in DOMAIN servers'
             /\ servers'[server'] = registry'[i].port]_vars

\* a bind failure on a bridge that has no record
C22_Witness ==
    /\ result = BindFailed
    /\ port > 0
    /\ ~ Listening
    /\ OwnRecords = {}

\* C28: the toggle command starts the server when no server of the bridge
\* listens (or reports that no port could be had), and offers the options
\* with 'Stop Server' when one listens.
C28_ToggleFollowsRunningState ==
    [][toggleRemote =>
          IF Listening
          THEN result'.kind = "quickPick"
          ELSE result'.kind \in {"started", "startFailed"}]_vars

\* C29: the host's test `getConnectionInfo().port > 0` is true exactly when
\* a server of the bridge listens.
C29_PortPositiveIffListening ==
    (getConnectionInfo.port > 0) <=> Listening

\* ------------------------------------------------------- restart and shutdown
\* C23: a successful start() of a bridge that was started before and then
\* stopped registers a record whose id and PIN both differ from the id and
\* the PIN the bridge had, and registered, before.
C23_RestartRenewsIdAndSecret ==
    [][\A p \in {0, DefaultPort} :
          (start(p) /\ nextServer > 1 /\ io = Null /\ result' = Started(port'))
          => /\ registry'[Len(registry')].id # sessionId
             /\ registry'[Len(registry')].pin # pin]_vars

C30_SecondStartIsHarmless ==
    /\ Cardinality(DOMAIN servers) <= 1
    /\ Cardinality(OwnRecords) <= 1
    /\ (io = Null /\ server = Null) => ~ Listening

\* ---------------------------------------- registry writers of two processes
\* Each window runs its own extension host.  A writer reads the list with
\* globalState.get, computes the new list, and hands it to globalState.update;
\* the stored list changes when that update lands, and another window's
\* writer can read or write in between.
RegisterOp(id, read, session) ==
    [kind |-> "register", id |-> id, read |-> read, write |-> RegisterIn(read, session)]
UnregisterOp(id, read) ==
    [kind |-> "unregister", id |-> id, read |-> read, write |-> UnregisterIn(read, id)]

\* pending with one more writer, and with one writer less
WithOp(op) == [b \in DOMAIN pending \cup {op.id} |-> IF b = op.id THEN op ELSE pending[b]]
WithoutOp(b) == [c \in DOMAIN pending \ {b} |-> pending[c]]

\* start(preferredPort) up to the call of globalState.update
startReads(preferredPort) ==
    /\ sessionId \notin DOMAIN pending
    /\ nextServer <= MaxStarts
    /\ LET startPort == IF preferredPort = 0 THEN DefaultPort ELSE preferredPort
           p == _findAvailablePort(startPort)
       IN /\ p # NoPortAvailable
          /\ port' = p
          /\ result' = Started(p)
          /\ server' = nextServer
          /\ io' = nextServer
          /\ servers' = [s \in DOMAIN servers \cup {nextServer} |->
                            IF s = nextServer THEN p ELSE servers[s]]
          /\ pending' = WithOp(RegisterOp(sessionId, registry, SessionInfo(p)))
          /\ nextServer' = nextServer + 1
    /\ UNCHANGED <<getStateCalls, other, client, occupied, pin, sessionId, authenticatedSockets, sockets, received,
                   inbound, appState, registry, nextSocket, presented>>

\* stop() with its globalState.update still on the way
stopReads ==
    /\ sessionId \notin DOMAIN pending
    /\ pending' = WithOp(UnregisterOp(sessionId, registry))
    /\ sockets' = Restrict(sockets, DOMAIN sockets \ SocketsOfIo)
    /\ received' = Restrict(received, DOMAIN sockets \ SocketsOfIo)
    /\ presented' = presented \ SocketsOfIo
    /\ io' = Null
    /\ servers' = Restrict(servers, DOMAIN servers \ {server, io})
    /\ server' = Null
    /\ authenticatedSockets' = ClearedAuthenticated
    /\ UNCHANGED <<getStateCalls, other, client, occupied, result, pin, sessionId, port, inbound, appState, registry,
                   nextSocket, nextServer>>

\* start() of the bridge of another window, up to the call of update
foreignStartReads(f) ==
    /\ f \notin DOMAIN pending
    /\ occupied = {}
    /\ LET p == _findAvailablePort(DefaultPort)
       IN /\ p # NoPortAvailable
          /\ occupied' = occupied \cup {p}
          /\ \E k \in 0..(RandomScale - 1) :
                pending' = WithOp(RegisterOp(f, registry,
                                     [id |-> f, workspaceName |-> "Untitled Workspace",
                                      port |-> p, startTime |-> nextServer,
                                      pin |-> _generatePin(k)]))
    /\ UNCHANGED <<getStateCalls, other, client, result, pin, sessionId, port, server, io, authenticatedSockets,
                   servers, sockets, received, inbound, appState, registry, nextSocket,
                   nextServer, presented>>

\* stop() of the running bridge of another window, its update on the way
foreignStopReads(f) ==
    /\ f \notin DOMAIN pending
    /\ occupied # {}
    /\ occupied' = {}
    /\ pending' = WithOp(UnregisterOp(f, registry))
    /\ UNCHANGED <<getStateCalls, other, client, result, pin, sessionId, port, server, io, authenticatedSockets,
                   servers, sockets, received, inbound, appState, registry, nextSocket,
                   nextServer, presented>>

\* the running bridge of another window dies without stop()
foreignDies ==
    /\ occupied # {}
    /\ occupied' = {}
    /\ UNCHANGED <<getStateCalls, other, client, pending, result, pin, sessionId, port, server, io,
                   authenticatedSockets, servers, sockets, received, inbound, appState,
                   registry, nextSocket, nextServer, presented>>

\* the update of writer b lands: the stored list becomes the list b computed
updateLands(b) ==
    /\ b \in DOMAIN pending
    /\ registry' = pending[b].write
    /\ pending' = WithoutOp(b)
    /\ UNCHANGED <<getStateCalls, other, client, occupied, result, pin, sessionId, port, server, io,
                   authenticatedSockets, servers, sockets, received, inbound, appState,
                   nextSocket, nextServer, presented>>

\* the ids of the writers
Writers == {SessionIdOf(1)} \cup ForeignIds

NextRace ==
    \/ startReads(DefaultPort)
    \/ stopReads
    \/ \E f \in ForeignIds : foreignStartReads(f)
    \/ \E f \in ForeignIds : foreignStopReads(f)
    \/ foreignDies
    \/ \E b \in Writers : updateLands(b)

SpecRace == InitRegistry /\ [][NextRace]_vars

\* what the operation gives when it runs on the stored list in one piece
Serial(op, stored) ==
    IF op.kind = "register"
    THEN RegisterIn(stored, op.write[Len(op.write)])
    ELSE UnregisterIn(stored, op.id)

Range(list) == { list[i] : i \in 1..Len(list) }

\* C25: no update is lost: when the write of an operation lands, the stored
\* list becomes what the operation gives on the list stored at that moment,
\* whatever other writers did since the operation read the list.
C25_NoLostUpdate ==
    [][\A b \in Writers :
          updateLands(b) => registry' = Serial(pending[b], registry)]_vars

\* C26 as stated: a write of bridge b leaves every stored record of another
\* id in the list, unchanged.
C26_OnlyOwnRecordTouched ==
    [][\A b \in Writers :
          updateLands(b) =>
             \A r \in Range(registry) : r.id # b => r \in Range(registry')]_vars

\* C26 amended: relative to the list it read, a registration drops exactly
\* the records of its own port, whatever their id, and adds its own record;
\* an unregistration drops exactly the records of its own id; and the list
\* computed this way is what gets stored.
C26_FilterByPortOrId ==
    [][/\ \A b \in DOMAIN pending' \ DOMAIN pending :
             LET op == pending'[b]
                 own == op.write[Len(op.write)]
             IN /\ op.read = registry
                /\ op.kind = "register" =>
                      /\ own.id = b
                      /\ \A r \in Range(op.read) :
                            r \in Range(op.write) <=> (r.port # own.port \/ r = own)
                      /\ Range(op.write) \ Range(op.read) \subseteq {own}
                /\ op.kind = "unregister" =>
                      /\ \A r \in Range(op.read) : r \in Range(op.write) <=> r.id # b
                      /\ Range(op.write) \subseteq Range(op.read)
       /\ \A b \in Writers : updateLands(b) => registry' = pending[b].write]_vars

\* a registration is about to replace the record that a dead bridge of
\* another window left on the same port
C26_Witness ==
    /\ sessionId \in DOMAIN pending
    /\ LET op == pending[sessionId]
       IN /\ op.kind = "register"
          /\ \E r \in Range(op.read) :
                /\ r.id \in ForeignIds
                /\ r.port = port
                /\ r \notin Range(op.write)

\* ------------------------------------------------------ state-owner callback
\* C31: an `authenticate` that carries the PIN invokes the state callback
\* exactly once and sends its value in one initialState event; a failed
\* authenticate and every other step (connect, message, disconnect,
\* broadcast, start, stop, state change) invoke it zero times.
C31_SnapshotOncePerAuthentication ==
    [][/\ \A c \in 1..MaxSockets, candidate \in CandidatePins :
             onAuthenticate(c, candidate) =>
                IF candidate = pin
                THEN /\ getStateCalls' = getStateCalls + 1
                     /\ Cardinality(PositionsOf(c, "initialState"))' =
                           Cardinality(PositionsOf(c, "initialState")) + 1
                ELSE getStateCalls' = getStateCalls
       /\ (~ \E c \in 1..MaxSockets, candidate \in CandidatePins :
               onAuthenticate(c, candidate))
             => getStateCalls' = getStateCalls]_vars

\* two successful authentications and a failed one have happened
C31_Witness ==
    /\ getStateCalls = 2
    /\ \E c \in DOMAIN received :
          \E i \in 1..Len(received[c]) : received[c][i] = AuthFail

\* C33: every id of the authenticated set is the id of an open socket of the
\* bridge.
C33_AuthenticatedAreOpen == authenticatedSockets \subseteq DOMAIN sockets

\* a socket was authenticated and has gone, by disconnect or stop, while
\* another socket is open
C33_Witness ==
    /\ getStateCalls >= 1
    /\ authenticatedSockets = {}
    /\ DOMAIN sockets # {}
    /\ nextSocket > MaxSockets

\* ------------------------------------------------------------- relay response
\* a respond that emits to every open socket
RespondTargets_everyone(c) == DOMAIN sockets

\* `socket.emit('message', response)` of the closure made for socket c: the
\* socket itself, as long as it is open
RespondTargets(c) == {c} \cap DOMAIN sockets

\* the state owner calls the respond function it was handed with the i-th
\* inbound message
respond(i, m) ==
    /\ i \in 1..Len(inbound)
    /\ EventCount < MaxEvents
    /\ received' = [d \in DOMAIN received |->
                       IF d \in RespondTargets(inbound[i][1])
                       THEN received[d] \o <<MessageEvent(m)>>
                       ELSE received[d]]
    /\ UNCHANGED <<getStateCalls, other, client, pending, occupied, result, pin,
                   sessionId, port, server, io, authenticatedSockets, servers, sockets,
                   inbound, appState, registry, nextSocket, nextServer, presented>>

NextRelay ==
    \/ start(DefaultPort)
    \/ stop
    \/ \E s \in 1..MaxStarts : onConnection(s)
    \/ \E c \in 1..MaxSockets, candidate \in CandidatePins : onAuthenticate(c, candidate)
    \/ \E c \in 1..MaxSockets, m \in Messages : onMessage(c, m)
    \/ \E c \in 1..MaxSockets : onDisconnect(c)
    \/ \E i \in 1..MaxEvents, m \in Messages : respond(i, m)

SpecRelay == Init /\ [][NextRelay]_vars

\* C32: a response goes, as one `message` event, to the socket that sent the
\* inbound message and to no other socket.
C32_ResponseOnlyToSender ==
    [][\A i \in 1..MaxEvents, m \in Messages :
          respond(i, m) =>
             \A d \in DOMAIN sockets :
                received'[d] = IF d = inbound[i][1]
                               THEN received[d] \o <<MessageEvent(m)>>
                               ELSE received[d]]_vars

\* the sender has its response while another open socket has received no
\* `message` event
C32_Witness ==
    /\ inbound # << >>
    /\ \E c, d \in DOMAIN sockets :
          /\ c # d
          /\ inbound[1][1] = c
          /\ PositionsOf(c, "message") # {}
          /\ PositionsOf(d, "message") = {}

\* C34: when the write of a registration lands, every stored record of
\* another port is still stored, unchanged; when the write of an
\* unregistration lands, every stored record of another id is.
C34_OthersLeftUnchanged ==
    [][\A b \in Writers :
          updateLands(b) =>
             LET op == pending[b]
                 own == op.write[Len(op.write)]
             IN \A r \in Range(registry) :
                   (IF op.kind = "register" THEN r.port # own.port ELSE r.id # b)
                      => r \in Range(registry')]_vars

\* ------------------------------------------------------- following redirects
\* the request a browser makes for a Location: the path, and the value of
\* the `pin` parameter of the query string
RequestFor(location) ==
    IF \E v \in QueryPins : v.type = "string" /\ location = "/app?pin=" \o v.value
    THEN [path |-> "/app",
          pin |-> CHOOSE v \in QueryPins :
                     v.type = "string" /\ location = "/app?pin=" \o v.value]
    ELSE [path |-> "/", pin |-> JsUndefined]

\* the answer to a followed redirect
Followed(response) == [kind |-> "followed", body |-> response]

\* the browser follows the redirect it was answered with
followRedirect ==
    /\ DOMAIN servers # {}
    /\ result.kind = "redirect"
    /\ LET request == RequestFor(result.body)
       IN result' = Followed(IF request.path = "/app"
                             THEN AppResponse(request.pin)
                             ELSE LandingResponse(request.pin))
    /\ UNCHANGED <<getStateCalls, other, client, pending, occupied, pin, sessionId, port,
                   server, io, authenticatedSockets, servers, sockets, received, inbound,
                   appState, registry, nextSocket, nextServer, presented>>

NextNavigation ==
    \/ start(DefaultPort)
    \/ \E v \in QueryPins : getLanding(v)
    \/ \E v \in QueryPins : getApp(v)
    \/ followRedirect

SpecNavigation == InitPin /\ [][NextNavigation]_vars

\* C37: every request to / or /app is answered with a page or with a
\* redirect, and the request that follows a redirect is answered with a
\* page: the application page after the landing route's redirect, the
\* landing page after the application route's.
C37_AtMostOneRedirect ==
    [][/\ \A v \in QueryPins :
             (getLanding(v) \/ getApp(v)) => result'.kind \in {"page", "redirect"}
       /\ followRedirect =>
             result' = Followed(IF result.body = "/?error=invalid_pin"
                                THEN Page("landing")
                                ELSE Page("app"))]_vars

\* the application page was reached through the landing route's redirect
C37_Witness == result = Followed(Page("app"))

\* --------------------------------------------------- authenticate payloads
\* what a client can send with `authenticate`: nothing, null, or an object
\* whose `pin` is a value, undefined when the field is missing
JsNull == [type |-> "null", value |-> ""]
Payload(v) == [type |-> "object", pin |-> v]

Payloads ==
    { JsUndefined, JsNull, Payload(JsUndefined), Payload(JsString(pin)),
      Payload(JsString("0000")), Payload(JsNumber(pin)) }

\* `data.pin` throws a TypeError when data is undefined or null
ReadingPinThrows(data) == data.type \in {"undefined", "null"}

\* an exception that leaves a handler
UncaughtException(name) == [kind |-> "uncaughtException", body |-> name]

\* socket.on('authenticate') with the payload as it arrives
onAuthenticateEvent(c, data) ==
    /\ c \in DOMAIN sockets
    /\ EventCount + 2 <= MaxEvents
    /\ IF ReadingPinThrows(data)
       THEN /\ result' = UncaughtException("TypeError")
            /\ UNCHANGED <<authenticatedSockets, received, getStateCalls, presented>>
       ELSE /\ result' = result
            /\ IF SocketAccepts(data.pin)
               THEN /\ authenticatedSockets' = authenticatedSockets \cup {c}
                    /\ received' = Emit(received, c, AuthSuccessEvents)
                    /\ getStateCalls' = AfterGetState(getStateCalls)
                    /\ presented' = presented \cup {c}
               ELSE /\ authenticatedSockets' = authenticatedSockets
                    /\ received' = Emit(received, c, <<AuthFail>>)
                    /\ UNCHANGED <<getStateCalls, presented>>
    /\ UNCHANGED <<other, client, pending, occupied, pin, sessionId, port, server, io,
                   servers, sockets, inbound, appState, registry, nextSocket, nextServer>>

NextPayload ==
    \/ start(DefaultPort)
    \/ stop
    \/ \E s \in 1..MaxStarts : onConnection(s)
    \/ \E c \in 1..MaxSockets, data \in Payloads : onAuthenticateEvent(c, data)
    \/ \E c \in 1..MaxSockets : onDisconnect(c)

SpecPayload == Init /\ [][NextPayload]_vars

\* C38: an `authenticate` without payload, or with a payload without `pin`,
\* is answered with the failure event, changes the authenticated set not, and
\* lets no exception out of the handler.
C38_MissingPinIsFailure ==
    [][\A c \in 1..MaxSockets, data \in {JsUndefined, JsNull, Payload(JsUndefined)} :
          onAuthenticateEvent(c, data) =>
             /\ received'[c] = received[c] \o <<AuthFail>>
             /\ authenticatedSockets' = authenticatedSockets
             /\ result'.kind # "uncaughtException"]_vars

\* ----------------------------------------------------------- browser client
\* The script of the application page. `socket` says whether io() has made the
\* socket, `open` whether it is connected, `connection` counts its
\* connections; `emitted` lists the `message` events with the connection each
\* was emitted on, `posted` the messages the UI handed to postMessage.
MaxPosted == 3
MaxConnections == 2
UiMessages == {"m1", "m2"}

UNCHANGED_server ==
    UNCHANGED <<getStateCalls, other, pending, occupied, pin, sessionId, port, server, io,
                authenticatedSockets, servers, sockets, received, inbound, appState,
                registry, nextSocket, nextServer, presented, result>>

\* a `message` event on connection k
OnConnection(k, m) == [connection |-> k, message |-> m]

\* a client that emits whenever it has a socket
EmitsNow_anySocket(c) == c.socket

\* postMessage's test: `isConnected && socket`
EmitsNow(c) == c.isConnected /\ c.socket

RECURSIVE Flush(_, _)
\* while (messageQueue.length > 0) socket.emit('message', messageQueue.shift())
Flush(k, queue) ==
    IF queue = << >>
    THEN << >>
    ELSE <<OnConnection(k, Head(queue))>> \o Flush(k, Tail(queue))

\* initSocket: socket = io(...)
initSocket ==
    /\ client.page # "left"
    /\ ~ client.socket
    /\ client' = [client EXCEPT !.socket = TRUE]
    /\ UNCHANGED_server

\* acquireVsCodeApi().postMessage(message)
postMessage(m) ==
    /\ client.page # "left"
    /\ Len(client.posted) < MaxPosted
    /\ client' = IF EmitsNow(client)
                 THEN [client EXCEPT !.posted = Append(@, m),
                                     !.emitted = Append(@, OnConnection(client.connection, m))]
                 ELSE [client EXCEPT !.posted = Append(@, m),
                                     !.messageQueue = Append(@, m)]
    /\ UNCHANGED_server

\* socket.on('connect'): a new connection, on which `authenticate` is emitted
clientConnect ==
    /\ client.page # "left"
    /\ client.socket
    /\ ~ client.open
    /\ client.connection < MaxConnections
    /\ client' = [client EXCEPT !.open = TRUE, !.connection = @ + 1, !.awaiting = TRUE]
    /\ UNCHANGED_server

\* socket.on('authenticated'): the server's answer on the open connection
clientAuthenticated(success) ==
    /\ client.page # "left"
    /\ client.open
    /\ client.awaiting
    /\ client' = IF success
                 THEN [client EXCEPT !.awaiting = FALSE,
                                     !.isConnected = TRUE,
                                     !.authenticatedOn = @ \cup {client.connection},
                                     !.emitted = @ \o Flush(client.connection,
                                                            client.messageQueue),
                                     !.messageQueue = << >>]
                 ELSE [client EXCEPT !.awaiting = FALSE, !.page = "leaving"]
    /\ UNCHANGED_server

\* socket.on('disconnect')
clientDisconnect ==
    /\ client.page # "left"
    /\ client.open
    /\ client' = [client EXCEPT !.open = FALSE, !.awaiting = FALSE, !.isConnected = FALSE]
    /\ UNCHANGED_server

\* the timeout set on a failure fires: window.location.href = '/?error=invalid_pin'
clientRedirect ==
    /\ client.page = "leaving"
    /\ client' = [client EXCEPT !.page = "left"]
    /\ UNCHANGED_server

NextClient ==
    \/ initSocket
    \/ \E m \in UiMessages : postMessage(m)
    \/ clientConnect
    \/ \E success \in BOOLEAN : clientAuthenticated(success)
    \/ clientDisconnect
    \/ clientRedirect

SpecClient == Init /\ [][NextClient]_vars

\* the messages of a list of `message` events
RECURSIVE MessagesOf(_)
MessagesOf(events) ==
    IF events = << >> THEN << >> ELSE <<Head(events).message>> \o MessagesOf(Tail(events))

\* C36: every `message` the client emitted was emitted on a connection on
\* which it had received `authenticated` success; the messages emitted so far
\* followed by the queued ones are exactly the posted ones, in the order
\* posted; and once authenticated the queue is empty.
C36_QueuedUntilAuthenticated ==
    /\ \A i \in DOMAIN client.emitted :
          client.emitted[i].connection \in client.authenticatedOn
    /\ MessagesOf(client.emitted) \o client.messageQueue = client.posted
    /\ client.isConnected =>
          /\ client.messageQueue = << >>
          /\ client.open
          /\ client.connection \in client.authenticatedOn

\* messages queued before the first authentication and between a disconnect
\* and the second authentication were all emitted, in order
C36_Witness ==
    /\ client.isConnected
    /\ client.authenticatedOn = {1, 2}
    /\ client.emitted = <<OnConnection(1, "m1"), OnConnection(2, "m2"), OnConnection(2, "m1")>>

\* ------------------------------------------------------------ two bridges
\* Two RemoteUiServer objects. The variables pin, sessionId, port, server, io
\* and authenticatedSockets are the fields of the object whose code runs;
\* `other` holds the fields of the second object and the servers it opened.
\* An event of a socket runs the handler of the object that opened the
\* socket's server.

\* servers opened by the object whose code runs
OwnedServers == (1..(nextServer - 1)) \ other.owned

\* sockets whose handlers are closures of the object whose code runs
OwnSockets == { c \in DOMAIN sockets : sockets[c] \in OwnedServers }

\* sockets of the servers of the second object
OtherSockets == { c \in DOMAIN sockets : sockets[c] \in other.owned }

\* one authenticated set for all objects of the class
AuthenticatedOf_static(instance) == authenticatedSockets

\* `private _authenticatedSockets`: a field of each object
AuthenticatedOf(instance) == instance.authenticatedSockets

\* control passes to the code of the second object
switchInstance ==
    /\ pin' = other.pin
    /\ sessionId' = other.sessionId
    /\ port' = other.port
    /\ server' = other.server
    /\ io' = other.io
    /\ authenticatedSockets' = AuthenticatedOf(other)
    /\ other' = [pin |-> pin, sessionId |-> sessionId, port |-> port, server |-> server,
                 io |-> io, authenticatedSockets |-> authenticatedSockets,
                 owned |-> OwnedServers]
    /\ UNCHANGED <<getStateCalls, client, pending, occupied, result, servers, sockets,
                   received, inbound, appState, registry, nextSocket, nextServer, presented>>

NextTwo ==
    \/ start(DefaultPort)
    \/ stop
    \/ \E s \in 1..MaxStarts : onConnection(s)
    \/ \E c \in 1..MaxSockets, candidate \in CandidatePins :
          c \in OwnSockets /\ onAuthenticate(c, candidate)
    \/ \E c \in 1..MaxSockets : c \in OwnSockets /\ onDisconnect(c)
    \/ \E m \in Messages : broadcast(m)
    \/ switchInstance

SpecTwo == Init /\ [][NextTwo]_vars

\* C35: an authentication handled by one bridge leaves the fields of the
\* other bridge as they were and adds the socket only when the candidate is
\* the PIN of the handling bridge, whatever the PIN of the other bridge is; a
\* broadcast of one bridge appends nothing to the log of a socket of the other
\* bridge; and the authenticated set of a bridge holds sockets of its own
\* servers only.
C35_BridgesIsolated ==
    [][/\ \A c \in 1..MaxSockets, candidate \in CandidatePins :
             (c \in OwnSockets /\ onAuthenticate(c, candidate)) =>
                /\ other' = other
                /\ authenticatedSockets' \ authenticatedSockets \subseteq {c}
                /\ (c \in authenticatedSockets' \ authenticatedSockets) => candidate = pin
       /\ \A m \in Messages :
             broadcast(m) => \A c \in OtherSockets : received'[c] = received[c]
       /\ (authenticatedSockets \subseteq OwnSockets)'
       /\ (other.authenticatedSockets \subseteq OtherSockets)']_vars

\* both bridges run, each has an authenticated socket, and the bridge whose
\* code runs has broadcast to its own
C35_Witness ==
    /\ io # Null
    /\ other.io # Null
    /\ other.pin # pin
    /\ authenticatedSockets # {}
    /\ other.authenticatedSockets # {}
    /\ \E c \in authenticatedSockets, m \in Messages : MessageEvent(m) \in EventsOf(c)

====
